---- MODULE Spec2Model ----
(***************************************************************************)
(* The session and credential lifecycle manager (class                     *)
(* AuthenticationManager) as a state machine.  Every async method is cut   *)
(* at its awaits: the code between two awaits runs to completion on the    *)
(* event loop and is one action; a suspended call is a record in `tasks`.  *)
(* Times are Date.now() values in milliseconds.  Two neighbours of the     *)
(* manager are modelled the same way, each in a section and with a         *)
(* specification of its own: the advice endpoint of server.js with its     *)
(* response cache, and the start-up of the page in market-integration.js.  *)
(***************************************************************************)
EXTENDS Integers, Sequences, FiniteSets, Bags, TLC

\* ---------------------------------------------------------------- bounds
MaxAdvances == 1      \* steps of the clock in one run
MaxTasks == 2         \* suspended async calls at one time
MaxFailures == 6      \* failed logins on record, all e-mails together, before the callers
                      \* give up, in the runs of login calls alone (SpecLogin)
MaxFailuresMixed == 1 \* the same in the runs of every operation (Spec)
MaxSessions == 2      \* sessions the backend opens in one run
MaxRenewals == 1      \* access tokens the backend issues to refresh requests in one run
MaxRenewalsTimer == 2 \* the same in the runs of the refresh timer (SpecTimer)

\* ------------------------------------------------------- this.config etc.
tokenExpiry == 3600000
refreshThreshold == 300000
maxLoginAttempts == 5
lockoutDuration == 300000
sessionTimeout == 1800000
attemptWindow == 3600000      \* getLoginAttempts: "1시간 후 초기화"
storedTokenMaxAge == 86400000 \* loadStoredTokens
minPasswordLength == 8        \* validateLoginInput

Null == <<>>                  \* null / a storage key that is not set

\* ----------------------------------------------------------------- inputs
\* An e-mail is the sequence of its characters; "" is the empty sequence.
bad == <<"b", "@", "x", ".", "c">>
good == <<"g", "@", "x", ".", "c">>
Principals == {bad, good}
Emails == Principals \cup {<<>>, <<"b", "@", "x">>}
PasswordLengths == {0, 7, 8}
\* The clock steps over each threshold the code compares a time with: the
\* lockout (5 min), the refresh delay (55 min < 1 h), the attempt window
\* exactly (1 h) and just past it.
ClockSteps == {lockoutDuration, attemptWindow, attemptWindow + lockoutDuration}

VARIABLES
    now,                \* Date.now()
    lastActivity,       \* startSessionTimeout's lastActivity: the time of the last user event
    currentUser,        \* this.currentUser: Null or the e-mail of the profile
    accessToken,        \* this.accessToken: Null or a token
    refreshToken,       \* this.refreshToken: Null or a token
    tokenRefreshTimer,  \* this.tokenRefreshTimer: Null or <<handle>>
    pendingTimers,      \* the setTimeout callbacks not yet run: {[id, due]}
    localBlob,          \* localStorage['mydata_auth_tokens']
    sessionBlob,        \* sessionStorage['mydata_auth_tokens']
    attempts,           \* localStorage['login_attempts_<email>']: Null or <<count, timestamp>>
    locked,             \* localStorage['account_locked_<email>']: Null or <<lockTime>>
    tasks,              \* the suspended async calls, by slot
    sessions,           \* the backend: sessions opened so far
    renewals,           \* the backend: access tokens issued to refresh requests so far
    advances,           \* steps the clock has taken
    streak,             \* history: per e-mail <<n, first>>, the failed logins since the last successful one
    refreshFailed,      \* history: the backend failed a refresh request and no login has succeeded since
    responseCache,      \* server.js: the Map responseCache, its entries in the order they were set
    GEMINI_API_KEY,     \* server.js: process.env.GEMINI_API_KEY, "" when not set
    marketIntegrator,   \* market-integration.js: the global, Null or [db |-> this.db]
    myDataDB,           \* the global of the database script, Null or [db |-> this.db]
    last                \* history: what the last step did

vars == <<now, lastActivity, currentUser, accessToken, refreshToken, tokenRefreshTimer,
          pendingTimers, localBlob, sessionBlob, attempts, locked, tasks,
          sessions, renewals, advances, streak, refreshFailed,
          responseCache, GEMINI_API_KEY, marketIntegrator, myDataDB, last>>

\* The state of the server and of the page around the manager.
server == <<responseCache, GEMINI_API_KEY>>

page == <<marketIntegrator, myDataDB>>

\* The state of the manager that the server and the page leave alone.
manager == <<lastActivity, currentUser, accessToken, refreshToken, tokenRefreshTimer,
             pendingTimers, localBlob, sessionBlob, attempts, locked, sessions, renewals,
             streak, refreshFailed>>

\* ------------------------------------------------------------ validation
\* emailRegex /^[^\s@]+@[^\s@]+\.[^\s@]+$/ : three runs of characters that
\* are neither white space nor "@", the first two separated by "@", the last
\* two by a ".".
isValidEmail(email) ==
    \E i \in 1..Len(email), j \in 1..Len(email) :
        /\ email[i] = "@"
        /\ email[j] = "."
        /\ 2 <= i
        /\ i + 2 <= j
        /\ j + 1 <= Len(email)
        /\ \A k \in 1..Len(email) : k # i => email[k] \notin {" ", "@"}

\* validateLoginInput without its check of the password's length.
validateLoginInput_NoLength(email, passwordLength) ==
    IF email = <<>> \/ passwordLength = 0 THEN "InvalidInput"
    ELSE IF ~isValidEmail(email) THEN "InvalidInput"
    ELSE "ok"

\* validateLoginInput: "ok", or the check that throws.
validateLoginInput(email, passwordLength) ==
    IF email = <<>> \/ passwordLength = 0 THEN "InvalidInput"
    ELSE IF ~isValidEmail(email) THEN "InvalidInput"
    ELSE IF passwordLength < minPasswordLength THEN "InvalidInput"
    ELSE "ok"

\* ------------------------------------------------------- attempt tracking
\* A storage item is Null (absent) or the tuple of its fields.
AttemptCount(a) == IF a = Null THEN 0 ELSE a[1]

\* getLoginAttempts: the record is stale when more than an hour has passed
\* since its timestamp; a stale record is removed (clearLoginAttempts) and
\* counts as 0.
AttemptsStale(a, t) == a # Null /\ t - a[2] > attemptWindow

getLoginAttempts(a, t) == IF a = Null \/ AttemptsStale(a, t) THEN 0 ELSE a[1]

\* isAccountLocked removing the lock it finds, in force or not.
lockAfterCheck_RemovesAlways(lk, t) == Null

\* isAccountLocked: its return value ...
isAccountLocked(lk, t) == lk # Null /\ t - lk[1] < lockoutDuration

\* ... and what it leaves under account_locked_<email>: an expired lock is
\* removed, and nothing else is touched.
lockAfterCheck(lk, t) == IF lk # Null /\ ~(t - lk[1] < lockoutDuration) THEN Null ELSE lk

\* clearLoginAttempts removing the counter and leaving the lock.
clearLoginAttempts_KeepsLock(A, L, email) ==
    [attempts |-> [A EXCEPT ![email] = Null], locked |-> L]

\* clearLoginAttempts removing the items of every e-mail.
clearLoginAttempts_Everyone(A, L, email) ==
    [attempts |-> [e \in DOMAIN A |-> Null], locked |-> [e \in DOMAIN L |-> Null]]

\* clearLoginAttempts(email) on the two families of items A (login_attempts_*)
\* and L (account_locked_*).
clearLoginAttempts(A, L, email) ==
    [attempts |-> [A EXCEPT ![email] = Null], locked |-> [L EXCEPT ![email] = Null]]

\* handleLoginFailure keeping the timestamp of the record it increments.
attemptsAfterFailure_FixedWindow(a, t) ==
    <<getLoginAttempts(a, t) + 1, IF getLoginAttempts(a, t) = 0 THEN t ELSE a[2]>>

\* handleLoginFailure: the new login_attempts_<email> item ...
attemptsAfterFailure(a, t) == <<getLoginAttempts(a, t) + 1, t>>

\* handleLoginFailure with the threshold one failure late.
lockAfterFailure_Late(a, lk, t) ==
    IF getLoginAttempts(a, t) + 1 > maxLoginAttempts THEN <<t>>
    ELSE IF AttemptsStale(a, t) THEN Null
    ELSE lk

\* ... and the new account_locked_<email> item (getLoginAttempts removes the
\* lock together with a stale counter).
lockAfterFailure(a, lk, t) ==
    IF getLoginAttempts(a, t) + 1 >= maxLoginAttempts THEN <<t>>
    ELSE IF AttemptsStale(a, t) THEN Null
    ELSE lk

\* ---------------------------------------------------------------- crypto
\* The key the constructor would hold had it awaited generateKey.
encryptionKey_Resolved == "CryptoKey"

\* The constructor stores what generateEncryptionKey returns, and that is the
\* promise crypto.subtle.generateKey gives back, never awaited: what is
\* handed to crypto.subtle.encrypt as the key is a Promise, not a CryptoKey.
encryptionKey == "Promise"

\* What crypto.subtle takes for a key: the CryptoKey this process generates,
\* or the one an earlier process (an earlier load of the page) had generated.
CryptoKeys == {"CryptoKey", "EarlierKey"}

\* AES-GCM ends the ciphertext with a tag that depends on the key, the IV and
\* the data: what decrypt recomputes and compares.
Seal(key, iv, data) == <<key, iv, data>>

\* encryptData: crypto.subtle.encrypt rejects (TypeError) unless its key is a
\* CryptoKey; the result is the IV followed by the ciphertext (the data under
\* the key, and the tag).
encryptData(key, data) ==
    [ok |-> key \in CryptoKeys,
     blob |-> IF key \in CryptoKeys THEN <<"iv", data, Seal(key, "iv", data)>> ELSE Null]

\* decryptData returning whatever data the blob carries, without the key and
\* without the comparison of the tag.
decryptData_Unchecked(key, blob) ==
    [ok |-> Len(blob) = 3, data |-> IF Len(blob) = 3 THEN blob[2] ELSE Null]

\* decryptData: it throws when the blob is not IV, data and tag (atob or the
\* slices give nothing to decrypt), when crypto.subtle.decrypt is handed a key
\* that is not a CryptoKey, and when the tag is not the one this key gives for
\* this IV and this data; else it returns the data.
decryptData(key, blob) ==
    LET ok == /\ Len(blob) = 3
              /\ key \in CryptoKeys
              /\ blob[3] = Seal(key, blob[1], blob[2])
    IN  [ok |-> ok, data |-> IF ok THEN blob[2] ELSE Null]

\* loadStoredTokens taking the bundle out of a blob it could not decrypt.
loadStoredTokens_FailOpen(key, local, session, t) ==
    LET blob == IF local # Null THEN local ELSE session
    IN  IF blob = Null \/ Len(blob) # 3 THEN Null
        ELSE <<blob[2][1], blob[2][2]>>

\* loadStoredTokens: the persistent item if there is one, else the session
\* item; Null (return false, nothing assigned) when there is none, when
\* decryptData throws (the catch returns false) or when the bundle is a day
\* old; else the two tokens it assigns.
loadStoredTokens(key, local, session, t) ==
    LET blob == IF local # Null THEN local ELSE session
        d == decryptData(key, blob)
    IN  IF blob = Null THEN Null
        ELSE IF ~d.ok THEN Null
        ELSE IF t - d.data[3] < storedTokenMaxAge THEN <<d.data[1], d.data[2]>>
        ELSE Null

\* ------------------------------------------------- session state, as a record
Cur == [currentUser |-> currentUser, accessToken |-> accessToken,
        refreshToken |-> refreshToken, tokenRefreshTimer |-> tokenRefreshTimer,
        pendingTimers |-> pendingTimers, localBlob |-> localBlob,
        sessionBlob |-> sessionBlob]

Put(S) ==
    /\ currentUser' = S.currentUser
    /\ accessToken' = S.accessToken
    /\ refreshToken' = S.refreshToken
    /\ tokenRefreshTimer' = S.tokenRefreshTimer
    /\ pendingTimers' = S.pendingTimers
    /\ localBlob' = S.localBlob
    /\ sessionBlob' = S.sessionBlob

\* clearAuthData (its third removeItem is of a key nothing writes).
clearAuthData(S) ==
    [S EXCEPT !.currentUser = Null, !.accessToken = Null, !.refreshToken = Null,
              !.localBlob = Null, !.sessionBlob = Null]

clearTimers(S) ==
    IF S.tokenRefreshTimer # Null
    THEN [S EXCEPT !.pendingTimers = {x \in @ : x.id # S.tokenRefreshTimer[1]},
                   !.tokenRefreshTimer = Null]
    ELSE S

\* setTimeout hands out a handle no pending timer has.
FreshHandle(pending) ==
    CHOOSE i \in 1..(Cardinality(pending) + 1) :
        /\ \A x \in pending : x.id # i
        /\ \A k \in 1..(i - 1) : \E x \in pending : x.id = k

\* startTokenRefreshTimer without its clearTimers.
startTokenRefreshTimer_NoCancel(S, t) ==
    LET h == FreshHandle(S.pendingTimers)
    IN  [S EXCEPT !.tokenRefreshTimer = <<h>>,
                  !.pendingTimers = @ \cup {[id |-> h, due |-> t + (tokenExpiry - refreshThreshold)]}]

\* startTokenRefreshTimer: clearTimers, then setTimeout for tokenExpiry -
\* refreshThreshold from now, its handle kept in this.tokenRefreshTimer.
startTokenRefreshTimer(S, t) ==
    LET C == clearTimers(S)
        h == FreshHandle(C.pendingTimers)
    IN  [C EXCEPT !.tokenRefreshTimer = <<h>>,
                  !.pendingTimers = @ \cup {[id |-> h, due |-> t + (tokenExpiry - refreshThreshold)]}]

\* storeTokens, the part before its await: the bundle is serialized with the
\* tokens and the time of the call and handed to encryptData, whose promise
\* the call then waits for.
storeSnapshot(S, t) == encryptData(encryptionKey, <<S.accessToken, S.refreshToken, t>>)

\* storeTokens, the part after its await: setItem when encryptData resolved
\* (e.ok), nothing (the catch logs) when it rejected.
storeWrite(S, persistent, e) ==
    IF ~e.ok THEN S
    ELSE IF persistent THEN [S EXCEPT !.localBlob = e.blob]
    ELSE [S EXCEPT !.sessionBlob = e.blob]

\* storeTokens passing on what encryptData threw.
storeTokensSettles_Rethrows(e) == IF e.ok THEN "resolved" ELSE "rejected"

\* storeTokens, how its promise settles: its catch logs whatever encryptData
\* or setItem threw, so the call resolves either way.
storeTokensSettles(e) == "resolved"

\* login dispatching auth:loginSuccess as soon as the backend has answered,
\* and again where it does now.
loginEvent_AtAnswer(res) ==
    IF res \in {"storing", "success"} THEN "auth:loginSuccess" ELSE "none"

\* The event a step of login dispatches, by how far the call got (res):
\* onLoginSuccess is called in the success path after storeTokens, right
\* before the call returns success, and nowhere else.
loginEvent(res) == IF res = "success" THEN "auth:loginSuccess" ELSE "none"

\* clearAuthData removing the counter and the lock of every e-mail.
recordsAfterClearAuthData_Wipes(A, L) ==
    [attempts |-> [e \in DOMAIN A |-> Null], locked |-> [e \in DOMAIN L |-> Null]]

\* What clearAuthData leaves of the items login_attempts_<email> (A) and
\* account_locked_<email> (L): all of them; the key of its third removeItem,
\* mydata_login_attempts, is none of theirs.
recordsAfterClearAuthData(A, L) == [attempts |-> A, locked |-> L]

\* logout, the part after sendLogoutRequest resolved (or was not needed).
logoutTeardown(S) == clearTimers(clearAuthData(S))

\* logout, its catch block.
logoutCatch(S) == clearAuthData(S)

\* isAuthenticated()
isAuthenticated == currentUser # Null /\ accessToken # Null

\* ------------------------------------------------------------------ tasks
\* A suspended call: the public method that is running (kind), the await it
\* is suspended at (pc), who called it (origin), and the locals it still needs.
NoSnap == [ok |-> FALSE, blob |-> Null]

Task(kind, pc, origin, email, passwordLength, persistent, rt, snap) ==
    [kind |-> kind, pc |-> pc, origin |-> origin, email |-> email,
     passwordLength |-> passwordLength, persistent |-> persistent, rt |-> rt, snap |-> snap]

Suspended(kind, pc) == {x \in BagToSet(tasks) : x.kind = kind /\ x.pc = pc}

Add(bag, x) == bag (+) SetToBag({x})

Remove(bag, x) == bag (-) SetToBag({x})

Room(bag) == BagCardinality(bag) < MaxTasks

\* What a step did: the public method it belongs to (op) and who called it
\* (origin), the e-mail once the lock check or the validation let it through
\* or the lock refused it (p), how far the call got or what it returned (res),
\* and the event the step dispatched (evt); `cleared` is Null, or the items
\* <<login_attempts, account_locked>> the step removed (by clearLoginAttempts,
\* or the expired lock by isAccountLocked).
Step(op, origin, p, res, evt) ==
    [op |-> op, origin |-> origin, p |-> p, res |-> res, evt |-> evt, cleared |-> Null]

\* The tokens the backend issues: <<kind, session, version, time>>.  The
\* session is the number of the login that opened it, the version the number
\* of the refresh that issued the token (0: issued by the login), the time the
\* Date.now() the token's text ends with.
IssuedToken(kind, session, version, t) == <<kind, session, version, t>>

RECURSIVE Total(_, _)
Total(f, S) == IF S = {} THEN 0 ELSE LET e == CHOOSE e \in S : TRUE IN f[e] + Total(f, S \ {e})

\* The failed logins on record plus the logins that may still fail.
FailureBudgetUsed ==
    Total([e \in Emails |-> AttemptCount(attempts[e])], Emails)
    + BagCardinality([x \in Suspended("login", "sendLoginRequest") |-> tasks[x]])

\* storeTokens awaits encryptData, and encryptData crypto.subtle.encrypt.
\* Handed a key that is not a CryptoKey, crypto.subtle.encrypt returns a
\* promise that is rejected already: the catch of encryptData, the catch of
\* storeTokens and the rest of the caller run from the microtask queue of the
\* task that is running, before the event loop takes up anything else (an
\* answer of the backend, a timer, a call, a later time).  With a CryptoKey the
\* encryption is a job of its own and the caller resumes in a later task.
StoreSettling ==
    /\ encryptData(encryptionKey, Null).ok = FALSE
    /\ \E x \in BagToSet(tasks) : x.pc = "storeTokens"

Init ==
    /\ now = 0
    /\ lastActivity = 0
    /\ currentUser = Null
    /\ accessToken = Null
    /\ refreshToken = Null
    /\ tokenRefreshTimer = Null
    /\ pendingTimers = {}
    /\ localBlob = Null
    /\ sessionBlob = Null
    /\ attempts = [e \in Emails |-> Null]
    /\ locked = [e \in Emails |-> Null]
    /\ tasks = EmptyBag
    /\ sessions = 0
    /\ renewals = 0
    /\ advances = 0
    /\ streak = [e \in Emails |-> <<0, 0>>]
    /\ refreshFailed = FALSE
    /\ responseCache = <<>>
    /\ GEMINI_API_KEY = ""
    /\ marketIntegrator = Null
    /\ myDataDB = Null
    /\ last = Step("init", "call", Null, "done", "none")

\* Time passes.
Advance(d) ==
    /\ ~StoreSettling
    /\ advances < MaxAdvances
    /\ advances' = advances + 1
    /\ now' = now + d
    /\ last' = Step("advance", "call", Null, "done", "none")
    /\ UNCHANGED <<server, page, refreshFailed, lastActivity, currentUser, accessToken, refreshToken, tokenRefreshTimer,
                   pendingTimers, localBlob, sessionBlob, attempts, locked, tasks,
                   sessions, renewals, streak>>

\* resetTimer, the listener startSessionTimeout adds for mousedown, mousemove,
\* keypress, scroll and touchstart.
UserActivity ==
    /\ ~StoreSettling
    /\ lastActivity # now
    /\ lastActivity' = now
    /\ last' = Step("activity", "call", Null, "done", "none")
    /\ UNCHANGED <<server, page, refreshFailed, now, currentUser, accessToken, refreshToken, tokenRefreshTimer,
                   pendingTimers, localBlob, sessionBlob, attempts, locked, tasks,
                   sessions, renewals, advances, streak>>

\* What isAccountLocked removed: nothing, or the expired lock.
Evicted(lk, t) == IF lockAfterCheck(lk, t) # lk THEN <<Null, lk>> ELSE Null

\* login(email, password, rememberMe) up to its first await: the lock check
\* (which removes an expired lock), the validation, and the call of
\* sendLoginRequest.  The two throws end the call in its catch.  The callers
\* stop submitting once `budget` failures are on record or may still come.
LoginCall(budget, email, passwordLength, rememberMe) ==
    /\ ~StoreSettling
    /\ locked' = [locked EXCEPT ![email] = lockAfterCheck(@, now)]
    /\ IF isAccountLocked(locked[email], now)
       THEN /\ last' = Step("login", "call", email, "AccountLocked", loginEvent("AccountLocked"))
            /\ tasks' = tasks
       ELSE IF validateLoginInput(email, passwordLength) # "ok"
       THEN /\ last' = [Step("login", "call", Null, "InvalidInput", loginEvent("InvalidInput"))
                            EXCEPT !.cleared = Evicted(locked[email], now)]
            /\ tasks' = tasks
       ELSE /\ Room(tasks)
            /\ FailureBudgetUsed < budget
            /\ tasks' = Add(tasks, Task("login", "sendLoginRequest", "call", email,
                                        passwordLength, rememberMe, Null, NoSnap))
            /\ last' = [Step("login", "call", email, "pending", loginEvent("pending"))
                            EXCEPT !.cleared = Evicted(locked[email], now)]
    /\ UNCHANGED <<server, page, refreshFailed, now, lastActivity, currentUser, accessToken, refreshToken, tokenRefreshTimer,
                   pendingTimers, localBlob, sessionBlob, attempts,
                   sessions, renewals, advances, streak>>

\* sendLoginRequest settles.  success: the three fields are set and
\* storeTokens runs up to its await.  failure: handleLoginFailure, then the
\* throw into the catch.  throw: the catch alone.
LoginResponse(x, outcome) ==
    /\ ~StoreSettling
    /\ x \in Suspended("login", "sendLoginRequest")
    /\ IF outcome = "success"
       THEN LET S == [Cur EXCEPT !.accessToken = IssuedToken("access", sessions + 1, 0, now),
                                 !.refreshToken = IssuedToken("refresh", sessions + 1, 0, now),
                                 !.currentUser = x.email]
            IN  /\ sessions < MaxSessions
                /\ sessions' = sessions + 1
                /\ Put(S)
                /\ tasks' = Add(Remove(tasks, x),
                                [x EXCEPT !.pc = "storeTokens", !.snap = storeSnapshot(S, now)])
                /\ last' = Step("login", "call", x.email, "storing", loginEvent("storing"))
                /\ UNCHANGED <<attempts, locked, streak>>
       ELSE /\ tasks' = Remove(tasks, x)
            /\ Put(Cur)
            /\ sessions' = sessions
            /\ IF outcome = "failure"
               THEN /\ attempts' = [attempts EXCEPT ![x.email] = attemptsAfterFailure(@, now)]
                    /\ locked' = [locked EXCEPT ![x.email] = lockAfterFailure(attempts[x.email], @, now)]
                    /\ streak' = [streak EXCEPT ![x.email] =
                                     IF @[1] = 0 THEN <<1, now>> ELSE <<@[1] + 1, @[2]>>]
                    /\ last' = Step("login", "call", x.email, "BackendFailure", loginEvent("BackendFailure"))
               ELSE /\ last' = Step("login", "call", x.email, "BackendThrew", loginEvent("BackendThrew"))
                    /\ UNCHANGED <<attempts, locked, streak>>
    /\ UNCHANGED <<server, page, refreshFailed, now, lastActivity, renewals, advances>>

\* storeTokens settles inside login: the write, onLoginSuccess,
\* clearLoginAttempts, and the successful return; had storeTokens rejected,
\* the catch of login and the return of a failure.
LoginStored(x) ==
    /\ x \in Suspended("login", "storeTokens")
    /\ tasks' = Remove(tasks, x)
    /\ IF storeTokensSettles(x.snap) = "resolved"
       THEN /\ Put(storeWrite(Cur, x.persistent, x.snap))
            /\ attempts' = clearLoginAttempts(attempts, locked, x.email).attempts
            /\ locked' = clearLoginAttempts(attempts, locked, x.email).locked
            /\ streak' = [streak EXCEPT ![x.email] = <<0, 0>>]
            /\ refreshFailed' = FALSE
            /\ last' = [Step("login", "call", x.email, "success", loginEvent("success"))
                            EXCEPT !.cleared = <<attempts[x.email], locked[x.email]>>]
       ELSE /\ Put(Cur)
            /\ last' = Step("login", "call", x.email, "StoreThrew", loginEvent("StoreThrew"))
            /\ UNCHANGED <<attempts, locked, streak, refreshFailed>>
    /\ UNCHANGED <<server, page, now, lastActivity, sessions, renewals, advances>>

\* What a call that ran logout() reports when it returns: logout() itself
\* nothing, refreshAccessToken false, after its backend request failed (rt is
\* the token it sent) or because there was no refresh token to send.
Returned(op, rt) ==
    IF op = "logout" THEN "done"
    ELSE IF rt = Null THEN "NoRefreshToken"
    ELSE "RefreshFailed"

\* logout() up to its await, run for `op` (logout itself, or the
\* refreshAccessToken that failed) with `rest` the other suspended calls and S
\* the session as the caller left it: with an access token sendLogoutRequest
\* is called, without one the teardown, clearTimers and onLogout run at once.
LogoutBegin(op, origin, rest, S, rt) ==
    IF S.accessToken # Null
    THEN /\ Room(rest)
         /\ Put(S)
         /\ tasks' = Add(rest, Task(op, "sendLogoutRequest", origin, Null, 0, FALSE, rt, NoSnap))
         /\ last' = Step(op, origin, Null, "pending", "none")
         /\ UNCHANGED <<attempts, locked>>
    ELSE /\ Put(logoutTeardown(S))
         /\ attempts' = recordsAfterClearAuthData(attempts, locked).attempts
         /\ locked' = recordsAfterClearAuthData(attempts, locked).locked
         /\ tasks' = rest
         /\ last' = Step(op, origin, Null, Returned(op, rt), "auth:logout")

LogoutCall ==
    /\ ~StoreSettling
    /\ LogoutBegin("logout", "call", tasks, Cur, Null)
    /\ UNCHANGED <<server, page, refreshFailed, now, lastActivity, sessions, renewals, advances, streak>>

\* The callback of setInterval tearing the session down itself, with no
\* logout().
SessionTimeout_Direct ==
    /\ ~StoreSettling
    /\ currentUser # Null
    /\ now - lastActivity > sessionTimeout
    /\ Put(clearAuthData(Cur))
    /\ tasks' = tasks
    /\ last' = Step("logout", "timeout", Null, "done", "none")
    /\ UNCHANGED <<attempts, locked>>
    /\ UNCHANGED <<server, page, refreshFailed, now, lastActivity, sessions, renewals, advances, streak>>

\* The callback of setInterval measuring from the start of the page, whatever
\* the listeners recorded since.
SessionTimeout_IgnoresActivity ==
    /\ ~StoreSettling
    /\ currentUser # Null
    /\ now > sessionTimeout
    /\ LogoutBegin("logout", "timeout", tasks, Cur, Null)
    /\ UNCHANGED <<server, page, refreshFailed, now, lastActivity, sessions, renewals, advances, streak>>

\* The callback startSessionTimeout gave to setInterval finds a profile and
\* the last activity more than sessionTimeout ago, and calls logout().
SessionTimeout ==
    /\ ~StoreSettling
    /\ currentUser # Null
    /\ now - lastActivity > sessionTimeout
    /\ LogoutBegin("logout", "timeout", tasks, Cur, Null)
    /\ UNCHANGED <<server, page, refreshFailed, now, lastActivity, sessions, renewals, advances, streak>>

\* sendLogoutRequest settles: resolved (whatever the answer), the teardown,
\* clearTimers and onLogout; rejected, the catch block.
LogoutResponse(x, outcome) ==
    /\ ~StoreSettling
    /\ x \in BagToSet(tasks)
    /\ x.pc = "sendLogoutRequest"
    /\ tasks' = Remove(tasks, x)
    /\ attempts' = recordsAfterClearAuthData(attempts, locked).attempts
    /\ locked' = recordsAfterClearAuthData(attempts, locked).locked
    /\ IF outcome = "resolved"
       THEN /\ Put(logoutTeardown(Cur))
            /\ last' = Step(x.kind, x.origin, Null, Returned(x.kind, x.rt), "auth:logout")
       ELSE /\ Put(logoutCatch(Cur))
            /\ last' = Step(x.kind, x.origin, Null, Returned(x.kind, x.rt), "none")
    /\ UNCHANGED <<server, page, refreshFailed, now, lastActivity, sessions, renewals, advances, streak>>

\* refreshAccessToken() up to its first await, with S the session as the
\* caller left it: without a refresh token the throw lands in the catch,
\* which logs out.
RefreshBegin(origin, S) ==
    IF S.refreshToken = Null
    THEN LogoutBegin("refresh", origin, tasks, S, Null)
    ELSE /\ Room(tasks)
         /\ Put(S)
         /\ tasks' = Add(tasks, Task("refresh", "sendTokenRefreshRequest", origin, Null,
                                     0, FALSE, S.refreshToken, NoSnap))
         /\ last' = Step("refresh", origin, Null, "pending", "none")
         /\ UNCHANGED <<attempts, locked>>

RefreshCall ==
    /\ ~StoreSettling
    /\ RefreshBegin("call", Cur)
    /\ UNCHANGED <<server, page, refreshFailed, now, lastActivity, sessions, renewals, advances, streak>>

\* The refresh timer runs its callback.
TimerFire(x) ==
    /\ ~StoreSettling
    /\ x \in pendingTimers
    /\ x.due <= now
    /\ RefreshBegin("timer", [Cur EXCEPT !.pendingTimers = @ \ {x}])
    /\ UNCHANGED <<server, page, refreshFailed, now, lastActivity, sessions, renewals, advances, streak>>

\* sendTokenRefreshRequest settles.  success: the access token is replaced,
\* the refresh token only when the answer carries one ("rotated"), and
\* storeTokens() runs up to its await.  failure or throw: logout().  The
\* backend issues at most `budget` tokens to refresh requests.
RefreshResponse(budget, x, outcome) ==
    /\ ~StoreSettling
    /\ x \in Suspended("refresh", "sendTokenRefreshRequest")
    /\ IF outcome \in {"success", "rotated"}
       THEN LET S == [Cur EXCEPT !.accessToken = IssuedToken("access", x.rt[2], renewals + 1, now),
                                 !.refreshToken = IF outcome = "rotated"
                                                  THEN IssuedToken("refresh", x.rt[2], renewals + 1, now)
                                                  ELSE @]
            IN  /\ renewals < budget
                /\ renewals' = renewals + 1
                /\ Put(S)
                /\ tasks' = Add(Remove(tasks, x),
                                [x EXCEPT !.pc = "storeTokens", !.snap = storeSnapshot(S, now)])
                /\ last' = Step("refresh", x.origin, Null, "storing", "none")
                /\ UNCHANGED <<attempts, locked, refreshFailed>>
       ELSE /\ LogoutBegin("refresh", x.origin, Remove(tasks, x), Cur, x.rt)
            /\ renewals' = renewals
            /\ refreshFailed' = TRUE
    /\ UNCHANGED <<server, page, now, lastActivity, sessions, advances, streak>>

\* storeTokens settles inside refreshAccessToken: the write (to the session
\* scope: storeTokens() is called without its argument), the new timer, and
\* the return of true; had storeTokens rejected, the catch and its logout().
RefreshStored(x) ==
    /\ x \in Suspended("refresh", "storeTokens")
    /\ IF storeTokensSettles(x.snap) = "resolved"
       THEN /\ Put(startTokenRefreshTimer(storeWrite(Cur, FALSE, x.snap), now))
            /\ tasks' = Remove(tasks, x)
            /\ last' = Step("refresh", x.origin, Null, "true", "none")
            /\ UNCHANGED <<attempts, locked>>
       ELSE LogoutBegin("refresh", x.origin, Remove(tasks, x), Cur, x.rt)
    /\ UNCHANGED <<server, page, refreshFailed, now, lastActivity, sessions, renewals, advances, streak>>

Next ==
    \/ \E d \in ClockSteps : Advance(d)
    \/ \E e \in Emails, n \in PasswordLengths, r \in BOOLEAN : LoginCall(MaxFailuresMixed, e, n, r)
    \/ \E x \in BagToSet(tasks), o \in {"success", "failure", "throw"} : LoginResponse(x, o)
    \/ \E x \in BagToSet(tasks) : LoginStored(x)
    \/ LogoutCall
    \/ UserActivity
    \/ SessionTimeout
    \/ \E x \in BagToSet(tasks), o \in {"resolved", "rejected"} : LogoutResponse(x, o)
    \/ RefreshCall
    \/ \E x \in pendingTimers : TimerFire(x)
    \/ \E x \in BagToSet(tasks), o \in {"success", "rotated", "failure", "throw"} : RefreshResponse(MaxRenewals, x, o)
    \/ \E x \in BagToSet(tasks) : RefreshStored(x)

Spec == Init /\ [][Next]_vars

\* The runs of login calls alone.
NextLogin ==
    \/ \E d \in ClockSteps : Advance(d)
    \/ \E e \in Emails, n \in PasswordLengths, r \in BOOLEAN : LoginCall(MaxFailures, e, n, r)
    \/ \E x \in BagToSet(tasks), o \in {"success", "failure", "throw"} : LoginResponse(x, o)
    \/ \E x \in BagToSet(tasks) : LoginStored(x)

SpecLogin == Init /\ [][NextLogin]_vars

\* The runs of the logins of the two principals, with a password that passes
\* the validation, and of what ends a session: logout, the inactivity poll,
\* the refresh that fails.
NextTeardown ==
    \/ \E d \in ClockSteps : Advance(d)
    \/ \E e \in Principals : LoginCall(MaxFailures, e, minPasswordLength, FALSE)
    \/ \E x \in BagToSet(tasks), o \in {"success", "failure"} : LoginResponse(x, o)
    \/ \E x \in BagToSet(tasks) : LoginStored(x)
    \/ LogoutCall
    \/ SessionTimeout
    \/ \E x \in BagToSet(tasks), o \in {"resolved", "rejected"} : LogoutResponse(x, o)
    \/ RefreshCall
    \/ \E x \in BagToSet(tasks), o \in {"failure"} : RefreshResponse(MaxRenewals, x, o)

SpecTeardown == Init /\ [][NextTeardown]_vars

\* The runs of one principal's logins, with the backend accepting them, and
\* of the refreshes and logouts of the sessions they open.
NextTimer ==
    \/ \E d \in ClockSteps : Advance(d)
    \/ LoginCall(MaxFailuresMixed, good, minPasswordLength, FALSE)
    \/ \E x \in BagToSet(tasks), o \in {"success"} : LoginResponse(x, o)
    \/ \E x \in BagToSet(tasks) : LoginStored(x)
    \/ LogoutCall
    \/ \E x \in BagToSet(tasks), o \in {"resolved", "rejected"} : LogoutResponse(x, o)
    \/ RefreshCall
    \/ \E x \in pendingTimers : TimerFire(x)
    \/ \E x \in BagToSet(tasks), o \in {"success", "failure"} : RefreshResponse(MaxRenewalsTimer, x, o)
    \/ \E x \in BagToSet(tasks) : RefreshStored(x)

SpecTimer == Init /\ [][NextTimer]_vars

\* --------------------------------------------- social login, registration
SocialProviders == {"google", "naver"}

\* The method that logs in with a provider.
SocialLogin(provider) == IF provider = "google" THEN "loginWithGoogle" ELSE "loginWithNaver"

\* loginWithGoogle() / loginWithNaver() up to the promise they return.
\* Without the provider's SDK on the page the throw lands in the catch, which
\* returns a failure.  With it the method returns a new Promise whose
\* executor registers the callback with the SDK and asks for the token; the
\* method's try block is left with that return.
SocialLoginCall(provider, sdkLoaded) ==
    /\ ~StoreSettling
    /\ IF ~sdkLoaded
       THEN /\ tasks' = tasks
            /\ last' = Step(SocialLogin(provider), "call", Null, "SdkMissing", "none")
       ELSE /\ Room(tasks)
            /\ tasks' = Add(tasks, Task(SocialLogin(provider), "callback", "call", Null,
                                        0, TRUE, Null, NoSnap))
            /\ last' = Step(SocialLogin(provider), "call", Null, "pending", "none")
    /\ Put(Cur)
    /\ UNCHANGED <<server, page, refreshFailed, now, lastActivity, attempts, locked, sessions, renewals,
                   advances, streak>>

\* The SDK runs the callback.  Told that the provider granted the login, the
\* callback calls this.getGoogleUserInfo (Google) and this.processSocialLogin,
\* methods the class does not have: the TypeError lands in the callback's
\* catch, which rejects the promise.  Told that it did not, the callback
\* rejects the promise itself.  The lines that would take the tokens of a
\* successful exchange are never reached.
SocialCallback(x, granted) ==
    /\ ~StoreSettling
    /\ x \in BagToSet(tasks)
    /\ x.pc = "callback"
    /\ tasks' = Remove(tasks, x)
    /\ last' = Step(x.kind, "call", Null,
                    IF granted THEN "HelperMissing" ELSE "ProviderFailed", "none")
    /\ Put(Cur)
    /\ UNCHANGED <<server, page, refreshFailed, now, lastActivity, attempts, locked, sessions, renewals,
                   advances, streak>>

\* register(userData), which reads and writes nothing of the manager: the
\* validation, hashPassword, encryptUserData (the e-mail, a required field,
\* goes through encryptData), sendRegistrationRequest; whatever throws lands
\* in the catch, which returns a failure.
Register(valid, answer) ==
    /\ ~StoreSettling
    /\ last' = Step("register", "call", Null,
                    IF ~valid THEN "InvalidInput"
                    ELSE IF ~encryptData(encryptionKey, good).ok THEN "EncryptionFailed"
                    ELSE IF answer = "success" THEN "success"
                    ELSE IF answer = "failure" THEN "BackendFailure"
                    ELSE "BackendThrew", "none")
    /\ Put(Cur)
    /\ UNCHANGED <<server, page, refreshFailed, now, lastActivity, attempts, locked, tasks, sessions,
                   renewals, advances, streak>>

\* How the promise of a public method stands after a step that got as far as
\* `res`: the social logins hand their caller the promise that the callback
\* rejects (reject(...) in the callback, outside the try of the method);
\* every other exit of every method is a return, in the try or in the catch.
promiseAfter(op, res) ==
    IF res \in {"pending", "storing"} THEN "pending"
    ELSE IF op \in {"loginWithGoogle", "loginWithNaver"} /\ res \in {"HelperMissing", "ProviderFailed"}
    THEN "rejected"
    ELSE "fulfilled"

\* The runs of the public methods, called by the page.
NextPublic ==
    \/ \E e \in {good, <<>>} : LoginCall(MaxFailuresMixed, e, minPasswordLength, FALSE)
    \/ \E x \in BagToSet(tasks), o \in {"success", "failure", "throw"} : LoginResponse(x, o)
    \/ \E x \in BagToSet(tasks) : LoginStored(x)
    \/ \E provider \in SocialProviders, sdkLoaded \in BOOLEAN : SocialLoginCall(provider, sdkLoaded)
    \/ \E x \in BagToSet(tasks), granted \in BOOLEAN : SocialCallback(x, granted)
    \/ \E valid \in BOOLEAN, answer \in {"success", "failure", "throw"} : Register(valid, answer)
    \/ LogoutCall
    \/ \E x \in BagToSet(tasks), o \in {"resolved", "rejected"} : LogoutResponse(x, o)
    \/ RefreshCall
    \/ \E x \in BagToSet(tasks), o \in {"success", "failure", "throw"} : RefreshResponse(MaxRenewals, x, o)
    \/ \E x \in BagToSet(tasks) : RefreshStored(x)

SpecPublic == Init /\ [][NextPublic]_vars

\* ------------------------------------- server.js: POST /api/investment-advice
CACHE_DURATION == 300000
cacheLimit == 100

\* A request body is <<portfolio, userMessage>>, "" for a field it lacks.
Bodies == {<<"A", "">>, <<"", "hi">>, <<"", "">>}

\* The x-api-key header of a request, "" for none.
ApiKeyHeaders == {"", "demo_key", "key_A"}

EnvKeys == {"", "env_key"}

\* The cache key: the md5 digest of JSON.stringify(req.body), a value that
\* depends on the body and on nothing else of the request.
cacheKey(body) == <<"md5", body[1], body[2]>>

\* req.headers['x-api-key'] || process.env.GEMINI_API_KEY
apiKey(header) == IF header # "" THEN header ELSE GEMINI_API_KEY

\* !apiKey || apiKey === 'demo_key'
keyMissing(key) == key = "" \/ key = "demo_key"

\* The place of key k in the cache, 0 when it has none.
cacheIndex(cache, k) ==
    IF \E i \in 1..Len(cache) : cache[i].key = k
    THEN CHOOSE i \in 1..Len(cache) : cache[i].key = k
    ELSE 0

\* responseCache.delete(k)
cacheDelete(cache, k) == SelectSeq(cache, LAMBDA e : e.key # k)

\* responseCache.set(k, {data, timestamp}), then the size limit: a Map keeps
\* the place of a key it already has and yields its keys in insertion order.
cacheSet(cache, k, data, t) ==
    LET e == [key |-> k, data |-> data, timestamp |-> t]
        i == cacheIndex(cache, k)
        c == IF i = 0 THEN Append(cache, e) ELSE [cache EXCEPT ![i] = e]
    IN  IF Len(c) > cacheLimit THEN Tail(c) ELSE c

\* The handler up to its await of axios.post: the cache lookup (a fresh entry
\* is the response, a stale one is deleted), the key check (401), the check
\* of the parameters (400), the call of the Gemini API.  In `last`, origin is
\* the x-api-key header of the request the step belongs to, p its body, res
\* the status of the response and `cleared` the advice sent.
AdviceRequest(body, header) ==
    LET k == cacheKey(body)
        i == cacheIndex(responseCache, k)
    IN  /\ IF i # 0 /\ now - responseCache[i].timestamp < CACHE_DURATION
           THEN /\ responseCache' = responseCache
                /\ tasks' = tasks
                /\ last' = [Step("investment-advice", header, body, "200", "none")
                                EXCEPT !.cleared = responseCache[i].data]
           ELSE /\ responseCache' = cacheDelete(responseCache, k)
                /\ IF keyMissing(apiKey(header))
                   THEN /\ tasks' = tasks
                        /\ last' = Step("investment-advice", header, body, "401", "none")
                   ELSE IF body[1] = "" /\ body[2] = ""
                   THEN /\ tasks' = tasks
                        /\ last' = Step("investment-advice", header, body, "400", "none")
                   ELSE /\ Room(tasks)
                        /\ tasks' = Add(tasks, [kind |-> "investment-advice", pc |-> "axios.post",
                                                 body |-> body, header |-> header])
                        /\ last' = Step("investment-advice", header, body, "pending", "none")
        /\ UNCHANGED <<manager, page, GEMINI_API_KEY, now, advances>>

\* axios.post settles.  ok: the advice is put in the cache under the body's
\* key and sent.  error: the catch answers 500.
AdviceResponse(x, outcome) ==
    /\ x \in BagToSet(tasks)
    /\ x.pc = "axios.post"
    /\ tasks' = Remove(tasks, x)
    /\ IF outcome = "ok"
       THEN LET data == <<"advice", x.body>>
            IN  /\ responseCache' = cacheSet(responseCache, cacheKey(x.body), data, now)
                /\ last' = [Step("investment-advice", x.header, x.body, "200", "none")
                                EXCEPT !.cleared = data]
       ELSE /\ responseCache' = responseCache
            /\ last' = Step("investment-advice", x.header, x.body, "500", "none")
    /\ UNCHANGED <<manager, page, GEMINI_API_KEY, now, advances>>

\* The server has started: the cache is empty, the environment has a key or
\* has none.
InitServer ==
    /\ now = 0
    /\ lastActivity = 0
    /\ currentUser = Null
    /\ accessToken = Null
    /\ refreshToken = Null
    /\ tokenRefreshTimer = Null
    /\ pendingTimers = {}
    /\ localBlob = Null
    /\ sessionBlob = Null
    /\ attempts = [e \in Emails |-> Null]
    /\ locked = [e \in Emails |-> Null]
    /\ tasks = EmptyBag
    /\ sessions = 0
    /\ renewals = 0
    /\ advances = 0
    /\ streak = [e \in Emails |-> <<0, 0>>]
    /\ refreshFailed = FALSE
    /\ responseCache = <<>>
    /\ GEMINI_API_KEY \in EnvKeys
    /\ marketIntegrator = Null
    /\ myDataDB = Null
    /\ last = Step("listen", "call", Null, "done", "none")

NextServer ==
    \/ \E d \in ClockSteps : Advance(d)
    \/ \E body \in Bodies, header \in ApiKeyHeaders : AdviceRequest(body, header)
    \/ \E x \in BagToSet(tasks), o \in {"ok", "error"} : AdviceResponse(x, o)

SpecServer == InitServer /\ [][NextServer]_vars

\* ------------------------------------ market-integration.js: page start-up
\* A piece of the page's start-up that is waiting: the DOMContentLoaded
\* handler in its loop (at setTimeout), initializeApp at one of its awaits,
\* an indexedDB.open request not yet settled (`by` tells the two requests
\* apart: the constructor of MyDataDatabase makes one, initializeDatabase
\* the other).
PageTask(kind, pc, by) == [kind |-> kind, pc |-> pc, by |-> by]

Handler == PageTask("DOMContentLoaded", "setTimeout", "document")

\* The DOMContentLoaded handler up to its first await.  new
\* MarketDataIntegrator() sets db to null and calls initializeApp, which runs
\* into initializeDatabase: myDataDB = new MyDataDatabase(), whose constructor
\* calls initDatabase() without waiting for it, and await
\* myDataDB.initDatabase() once more.  Each initDatabase opens the database,
\* or rejects at once where the browser has no indexedDB; then initializeApp
\* is through its catch before the event loop takes up anything else.  The
\* handler finds db null and sleeps for the first time.
DomContentLoaded(available) ==
    /\ marketIntegrator = Null
    /\ marketIntegrator' = [db |-> Null]
    /\ myDataDB' = [db |-> Null]
    /\ tasks' = IF available
                THEN SetToBag({Handler,
                               PageTask("initializeApp", "initializeDatabase", "constructor"),
                               PageTask("indexedDB.open", "pending", "constructor"),
                               PageTask("indexedDB.open", "pending", "initializeDatabase")})
                ELSE SetToBag({Handler})
    /\ last' = Step("DOMContentLoaded", "document", Null, "waiting", "none")
    /\ UNCHANGED <<manager, server, now, advances>>

\* An open request fires an event.  upgradeneeded: this.db is set and the
\* stores are made; the request stays open.  success: this.db is set and the
\* promise resolved; initializeDatabase, if it is its request, returns
\* myDataDB, initializeApp stores it in this.db and goes on to await
\* loadLastPortfolio.  error: the promise is rejected; initializeApp, if it
\* awaits it, ends in its catch, this.db still null.
OpenSettles(x, outcome) ==
    /\ x \in BagToSet(tasks)
    /\ x.kind = "indexedDB.open"
    /\ outcome = "upgradeneeded" => x.pc = "pending"
    /\ myDataDB' = IF outcome = "error" THEN myDataDB ELSE [db |-> <<"IDBDatabase">>]
    /\ marketIntegrator' = IF outcome = "success" /\ x.by = "initializeDatabase"
                           THEN [db |-> <<"myDataDB">>]
                           ELSE marketIntegrator
    /\ tasks' = LET rest == Remove(tasks, x)
                    app == PageTask("initializeApp", "initializeDatabase", "constructor")
                IN  IF outcome = "upgradeneeded" THEN Add(rest, [x EXCEPT !.pc = "upgraded"])
                    ELSE IF x.by # "initializeDatabase" THEN rest
                    ELSE IF outcome = "success"
                    THEN Add(Remove(rest, app), [app EXCEPT !.pc = "loadLastPortfolio"])
                    ELSE Remove(rest, app)
    /\ last' = Step("indexedDB.open", x.by, Null, outcome, "none")
    /\ UNCHANGED <<manager, server, now, advances>>

\* getLatestPortfolio settles: loadLastPortfolio fills the form or logs the
\* error, and initializeApp runs to its end.
LoadLastPortfolioSettles(x, outcome) ==
    /\ x \in BagToSet(tasks)
    /\ x.kind = "initializeApp"
    /\ x.pc = "loadLastPortfolio"
    /\ tasks' = Remove(tasks, x)
    /\ last' = Step("initializeApp", "constructor", Null, outcome, "none")
    /\ UNCHANGED <<manager, server, page, now, advances>>

\* The handler's setTimeout has run: marketIntegrator.db is set and the
\* handler reports completion, or it is not and the handler sleeps again.
HandlerWakes ==
    /\ Handler \in BagToSet(tasks)
    /\ IF marketIntegrator.db # Null
       THEN /\ tasks' = Remove(tasks, Handler)
            /\ last' = Step("DOMContentLoaded", "document", Null, "completed", "none")
       ELSE /\ tasks' = tasks
            /\ last' = Step("DOMContentLoaded", "document", Null, "waiting", "none")
    /\ UNCHANGED <<manager, server, page, now, advances>>

NextPage ==
    \/ \E d \in ClockSteps : Advance(d)
    \/ \E available \in BOOLEAN : DomContentLoaded(available)
    \/ \E x \in BagToSet(tasks), o \in {"upgradeneeded", "success", "error"} : OpenSettles(x, o)
    \/ \E x \in BagToSet(tasks), o \in {"resolved", "rejected"} : LoadLastPortfolioSettles(x, o)
    \/ HandlerWakes

SpecPage == Init /\ [][NextPage]_vars

\* The event loop runs every timer that is due and delivers the events of
\* every request.
SpecPageFair ==
    /\ SpecPage
    /\ WF_vars(\E x \in BagToSet(tasks), o \in {"upgradeneeded", "success", "error"} : OpenSettles(x, o))
    /\ WF_vars(\E x \in BagToSet(tasks), o \in {"resolved", "rejected"} : LoadLastPortfolioSettles(x, o))
    /\ WF_vars(HandlerWakes)

\* ------------------------------------------------ start-up and the crypto
\* The bundle an earlier process held and stored at time 0, and another
\* bundle (what a changed blob may carry in its place).
EarlierBundle ==
    <<IssuedToken("access", 1, 0, 0), IssuedToken("refresh", 1, 0, 0), 0>>

OtherBundle ==
    <<IssuedToken("access", 2, 0, 0), IssuedToken("refresh", 2, 0, 0), 0>>

\* The item storeTokens of that process wrote.
EarlierBlob == encryptData("EarlierKey", EarlierBundle).blob

\* That item with a byte of its IV, of its data or of its tag changed.
TamperedBlobs ==
    {[EarlierBlob EXCEPT ![1] = "iw"],
     [EarlierBlob EXCEPT ![2] = OtherBundle],
     [EarlierBlob EXCEPT ![3] = Seal("EarlierKey", "iv", OtherBundle)]}

\* What a storage scope may hold under mydata_auth_tokens when the page is
\* loaded: nothing, a text that is no blob, the earlier item, or the earlier
\* item changed.
StoredBlobs == {Null, <<"x">>, EarlierBlob} \cup TamperedBlobs

\* The time of the load: that of the earlier write, a day later less a
\* millisecond, and a day later.
StartTimes == {0, storedTokenMaxAge - 1, storedTokenMaxAge}

\* The texts handed to encryptData: "", "a", "ab", and a bundle.
Plaintexts == {<<>>, <<"a">>, <<"a", "b">>, EarlierBundle}

\* The constructor has run: the fields are null, the key is what
\* generateEncryptionKey returned, and initializeAuth is about to start.
InitStore ==
    /\ now \in StartTimes
    /\ lastActivity = now
    /\ currentUser = Null
    /\ accessToken = Null
    /\ refreshToken = Null
    /\ tokenRefreshTimer = Null
    /\ pendingTimers = {}
    /\ localBlob \in StoredBlobs
    /\ sessionBlob \in StoredBlobs
    /\ attempts = [e \in Emails |-> Null]
    /\ locked = [e \in Emails |-> Null]
    /\ tasks = EmptyBag
    /\ sessions = 0
    /\ renewals = 0
    /\ advances = 0
    /\ streak = [e \in Emails |-> <<0, 0>>]
    /\ refreshFailed = FALSE
    /\ responseCache = <<>>
    /\ GEMINI_API_KEY = ""
    /\ marketIntegrator = Null
    /\ myDataDB = Null
    /\ last = Step("constructor", "call", Null, "pending", "none")

\* initializeAuth: loadStoredTokens (whose await of decryptData is of a
\* promise rejected already when the key is not a CryptoKey), then, with an
\* access token, the await of validateToken; without one,
\* startSessionTimeout and the end of the call.  loadStoredTokens catches
\* what it throws, so the catch of initializeAuth is not entered here.
InitializeAuth ==
    /\ last.op = "constructor"
    /\ LET loaded == loadStoredTokens(encryptionKey, localBlob, sessionBlob, now)
           S == IF loaded = Null THEN Cur
                ELSE [Cur EXCEPT !.accessToken = loaded[1], !.refreshToken = loaded[2]]
       IN  /\ Put(S)
           /\ IF S.accessToken = Null
              THEN /\ tasks' = tasks
                   /\ last' = Step("initializeAuth", "constructor", Null, "done", "none")
              ELSE /\ tasks' = Add(tasks, Task("initializeAuth", "validateToken", "constructor",
                                               Null, 0, FALSE, Null, NoSnap))
                   /\ last' = Step("initializeAuth", "constructor", Null, "pending", "none")
    /\ lastActivity' = now
    /\ UNCHANGED <<server, page, refreshFailed, now, attempts, locked, sessions, renewals, advances, streak>>

\* initializeAuth after validateToken settled (never reached: loadStoredTokens
\* assigns no token).  validateToken answers whether the token starts with
\* demo_access_token, which the tokens of a login do and those of a refresh
\* do not.  With a valid token loadUserProfile is awaited and
\* startTokenRefreshTimer arms the timer for 55 minutes from now; with an
\* invalid one refreshAccessToken is called.
InitializeAuthValidated(x) ==
    /\ x \in Suspended("initializeAuth", "validateToken")
    /\ IF accessToken # Null /\ accessToken[3] = 0
       THEN /\ Put(startTokenRefreshTimer(Cur, now))
            /\ tasks' = Remove(tasks, x)
            /\ last' = Step("initializeAuth", "constructor", Null, "done", "none")
            /\ UNCHANGED <<attempts, locked>>
       ELSE RefreshBegin("constructor", Cur)
    /\ UNCHANGED <<server, page, refreshFailed, now, lastActivity, sessions, renewals, advances, streak>>

\* A caller awaits decryptData(await encryptData(data)).
RoundTrip(data) ==
    /\ last.op # "constructor"
    /\ LET e == encryptData(encryptionKey, data)
           d == decryptData(encryptionKey, e.blob)
       IN  last' = [Step("roundTrip", "call", data,
                         IF e.ok /\ d.ok THEN "resolved" ELSE "rejected", "none")
                        EXCEPT !.cleared = IF e.ok /\ d.ok THEN d.data ELSE Null]
    /\ UNCHANGED <<server, page, refreshFailed, now, lastActivity, currentUser, accessToken, refreshToken, tokenRefreshTimer,
                   pendingTimers, localBlob, sessionBlob, attempts, locked, tasks,
                   sessions, renewals, advances, streak>>

\* A caller awaits decryptData(blob) of an item it read from storage.
DecryptCall(blob) ==
    /\ last.op # "constructor"
    /\ blob # Null
    /\ last' = [Step("decryptData", "call", blob,
                     IF decryptData(encryptionKey, blob).ok THEN "resolved" ELSE "rejected",
                     "none")
                    EXCEPT !.cleared = decryptData(encryptionKey, blob).data]
    /\ UNCHANGED <<server, page, refreshFailed, now, lastActivity, currentUser, accessToken, refreshToken, tokenRefreshTimer,
                   pendingTimers, localBlob, sessionBlob, attempts, locked, tasks,
                   sessions, renewals, advances, streak>>

NextStore ==
    \/ InitializeAuth
    \/ \E data \in Plaintexts : RoundTrip(data)
    \/ \E blob \in {localBlob, sessionBlob} : DecryptCall(blob)

\* The load of the page over what storage holds, and the crypto methods.
SpecStore == InitStore /\ [][NextStore]_vars

\* -------------------------------------------------------------- properties
\* The step just taken is the backend's failure answer to a login for p.
FailureAnswered(p) == last = Step("login", "call", p, "BackendFailure", "none")

\* The step now taken is login(p, ..) running up to its throw or its await.
LoginCalled(p) ==
    /\ last'.op = "login"
    /\ last'.p = p
    /\ last'.res \in {"AccountLocked", "pending"}

\* C1: once five logins for p in a row (no successful one between them) have
\* been answered with a failure by the backend, all within one hour, p is
\* locked; and a login for p called while the lock is in force ends with
\* AccountLocked and submits nothing to sendLoginRequest.
C1_LockAfterFiveFailures ==
    /\ [](\A p \in Principals :
            (/\ FailureAnswered(p)
             /\ streak[p][1] >= 5
             /\ now - streak[p][2] <= 3600000) => isAccountLocked(locked[p], now))
    /\ [][\A p \in Principals :
            (isAccountLocked(locked[p], now) /\ LoginCalled(p))
                => (last'.res = "AccountLocked" /\ tasks' = tasks)]_vars

\* A sixth login for p is refused while the lock set by the fifth failure
\* is in force.
C1_Witness ==
    \E p \in Principals :
        /\ last = Step("login", "call", p, "AccountLocked", "none")
        /\ streak[p][1] = 5
        /\ isAccountLocked(locked[p], now)

Anonymous == currentUser = Null /\ accessToken = Null /\ refreshToken = Null

\* C2: in every reachable state the access token and the refresh token are
\* both set or both null.
C2_TokensBothOrNeither == (accessToken = Null) <=> (refreshToken = Null)

\* C3: when the answer to a refresh request is processed (the success branch
\* up to storeTokens, then the rest after it) in a session that a logout has
\* torn down since the request was sent, the session stays Anonymous: no
\* token or profile is set, nothing is written to either storage scope, and
\* no timer is armed.
C3_StaleRefreshIgnored ==
    [][(Anonymous /\ last'.op = "refresh" /\ last'.res \in {"storing", "true"})
        => /\ Anonymous'
           /\ localBlob' = Null
           /\ sessionBlob' = Null
           /\ tokenRefreshTimer' = tokenRefreshTimer
           /\ pendingTimers' = pendingTimers]_vars

\* C4: when the refreshAccessToken run by the refresh timer returns after
\* its backend request failed (failure answer or thrown error), the session
\* is Anonymous, both storage scopes are empty, and the logout event has been
\* dispatched.
C4_TimerRefreshFailureEndsSession ==
    (last.op = "refresh" /\ last.origin = "timer" /\ last.res = "RefreshFailed")
        => /\ Anonymous
           /\ localBlob = Null
           /\ sessionBlob = Null
           /\ last.evt = "auth:logout"

\* C5: when login returns successfully a refresh timer is armed.
C5_LoginArmsRefreshTimer ==
    (last.op = "login" /\ last.res = "success")
        => /\ tokenRefreshTimer # Null
           /\ \E x \in pendingTimers : x.id = tokenRefreshTimer[1]

\* C6: while the session is Authenticated a login call is rejected (nothing
\* is submitted to the backend) and no login answer replaces the tokens or
\* the profile.
C6_LoginKeepsSession ==
    [][(isAuthenticated /\ last'.op = "login" /\ last'.res \in {"pending", "storing"})
        => /\ tasks' = tasks
           /\ accessToken' = accessToken
           /\ refreshToken' = refreshToken
           /\ currentUser' = currentUser]_vars

\* C7: a login for p that evaluates isAccountLocked when p's lock is at
\* least five minutes old is let through, the lock is gone, and p's failure
\* count is back to 0 (five more failures are needed for the next lock).
C7_ExpiredLockResetsCounter ==
    [][\A p \in Principals :
        (locked[p] # Null /\ now - locked[p][1] >= 300000 /\ LoginCalled(p))
            => /\ last'.res = "pending"
               /\ locked'[p] = Null
               /\ getLoginAttempts(attempts'[p], now) = 0]_vars

\* C8: in every reachable state p has a lock record exactly when p's stored
\* failure count is at least 5.
C8_LockIffCountAtLeastFive ==
    \A p \in Principals : (locked[p] # Null) <=> (AttemptCount(attempts[p]) >= 5)

C10_EveryFailedLoginCounted ==
    [][\A p \in Principals :
        (last'.op = "login" /\ last'.p = p /\ last'.res \in {"BackendFailure", "BackendThrew"})
            => /\ AttemptCount(attempts'[p]) = getLoginAttempts(attempts[p], now) + 1
               /\ Anonymous => Anonymous']_vars

\* C11: when login returns successfully for p, p has neither a failure
\* counter nor a lock record.
C11_SuccessClearsAttempts ==
    \A p \in Principals :
        (last.op = "login" /\ last.res = "success" /\ last.p = p)
            => (attempts[p] = Null /\ locked[p] = Null)

\* A login for p returned successfully when p had both a counter and a lock
\* record (set by a failure that came while this login was in flight).
C11_Witness ==
    \E p \in Principals :
        /\ last.op = "login" /\ last.res = "success" /\ last.p = p
        /\ last.cleared[1] # Null
        /\ last.cleared[2] # Null
        /\ attempts[p] = Null
        /\ locked[p] = Null

\* C12: a step of a login (the call with its lock check, the failure
\* recorded, the success that clears) changes the counter and the lock record
\* of one e-mail at most, the login's own (a call that ends with InvalidInput
\* does not tell whose it was); and while p is locked, a login for another
\* principal that has no lock in force is not refused as locked, and leaves
\* p locked.
C12_PerPrincipal ==
    /\ [][last'.op = "login" =>
            \E e \in Emails :
                /\ last'.res # "InvalidInput" => e = last'.p
                /\ \A q \in Emails \ {e} :
                        attempts'[q] = attempts[q] /\ locked'[q] = locked[q]]_vars
    /\ [][\A p \in Principals, q \in Principals :
            (/\ p # q
             /\ isAccountLocked(locked[p], now)
             /\ ~isAccountLocked(locked[q], now)
             /\ LoginCalled(q))
                => (last'.res = "pending" /\ isAccountLocked(locked'[p], now))]_vars

\* A login for q is on its way to the backend while p is locked with five
\* failures on record, q having none.
C12_Witness ==
    \E p \in Principals, q \in Principals :
        /\ p # q
        /\ isAccountLocked(locked[p], now)
        /\ AttemptCount(attempts[p]) = 5
        /\ attempts[q] = Null
        /\ last = Step("login", "call", q, "pending", "none")

\* C13: when logout() returns, whatever became of sendLogoutRequest, the
\* tokens and the profile are null, both storage scopes hold no blob, no
\* refresh timer is set, and the logout event has been dispatched.
C13_LogoutTeardownComplete ==
    (last.op = "logout" /\ last.res = "done")
        => /\ Anonymous
           /\ localBlob = Null
           /\ sessionBlob = Null
           /\ tokenRefreshTimer = Null
           /\ pendingTimers = {}
           /\ last.evt = "auth:logout"

C15_TokensOfOneSession ==
    (accessToken # Null /\ refreshToken # Null) => accessToken[2] = refreshToken[2]

LoginRefused == last'.op = "login" /\ last'.res \in {"InvalidInput", "AccountLocked"}

\* C17, as the specification states it: a login call that ends with
\* InvalidInput or AccountLocked leaves the session, both storage scopes,
\* every failure counter, every lock record and the timers as they were, and
\* submits nothing to the backend.
C17_RefusedLoginNoSideEffect ==
    [][LoginRefused =>
        UNCHANGED <<currentUser, accessToken, refreshToken, localBlob, sessionBlob,
                    attempts, locked, tokenRefreshTimer, pendingTimers, tasks>>]_vars

\* C17, amended: such a call leaves all of that as it was except that, when
\* it ends with InvalidInput, the lock check made first has removed the lock
\* record of the e-mail given if that lock had expired (was at least five
\* minutes old).
C17_RefusedLoginEvictsExpiredLockOnly ==
    [][LoginRefused =>
        /\ UNCHANGED <<currentUser, accessToken, refreshToken, localBlob, sessionBlob,
                       attempts, tokenRefreshTimer, pendingTimers, tasks>>
        /\ \/ locked' = locked
           \/ /\ last'.res = "InvalidInput"
              /\ \E e \in Principals :
                    /\ locked[e] # Null
                    /\ now - locked[e][1] >= 300000
                    /\ locked' = [locked EXCEPT ![e] = Null]]_vars

\* A login call ended with InvalidInput after its lock check had removed an
\* expired lock.
C17_Witness ==
    /\ last.op = "login"
    /\ last.res = "InvalidInput"
    /\ last.cleared # Null
    /\ \E p \in Principals : locked[p] = Null /\ AttemptCount(attempts[p]) >= 5

\* C18: every login submitted to sendLoginRequest had a non-empty e-mail
\* that matches the address pattern and a password of at least 8 characters;
\* and a login call that ends with InvalidInput submits nothing and changes
\* no failure counter.
C18_InvalidInputStaysLocal ==
    /\ [](\A x \in BagToSet(tasks) :
            x.kind = "login" => (/\ x.email # <<>>
                                 /\ isValidEmail(x.email)
                                 /\ x.passwordLength >= 8))
    /\ [][(last'.op = "login" /\ last'.res = "InvalidInput")
            => (tasks' = tasks /\ attempts' = attempts)]_vars

\* A login call has ended with InvalidInput while another login, with valid
\* input, is with the backend.
C18_Witness ==
    /\ last.op = "login"
    /\ last.res = "InvalidInput"
    /\ Suspended("login", "sendLoginRequest") # {}

\* C19: when refreshAccessToken has returned true, loadStoredTokens (the
\* persistent scope first, then the session scope) yields the two tokens now
\* in memory.
C19_RefreshStoresCurrentBundle ==
    (last.op = "refresh" /\ last.res = "true")
        => loadStoredTokens(encryptionKey, localBlob, sessionBlob, now)
               = <<accessToken, refreshToken>>

\* The blob decrypts under the manager's key to the tokens the backend
\* issued for one login, and a timestamp.
HoldsIssuedBundle(blob) ==
    /\ blob # Null
    /\ decryptData(encryptionKey, blob).ok
    /\ \E n \in 1..MaxSessions :
          /\ decryptData(encryptionKey, blob).data[1]
                = IssuedToken("access", n, 0, decryptData(encryptionKey, blob).data[3])
          /\ decryptData(encryptionKey, blob).data[2]
                = IssuedToken("refresh", n, 0, decryptData(encryptionKey, blob).data[3])
          /\ decryptData(encryptionKey, blob).data[3] \in 0..now

\* C20: when a login returns successfully, with rememberMe the persistent
\* scope holds a blob that decrypts under the manager's key to the tokens the
\* backend returned and the time of the write; without it the session scope
\* holds that blob and the persistent scope is as it was.
C20_LoginStoresBundle ==
    [][\A x \in Suspended("login", "storeTokens") :
        LoginStored(x) =>
            IF x.persistent
            THEN HoldsIssuedBundle(localBlob')
            ELSE HoldsIssuedBundle(sessionBlob') /\ localBlob' = localBlob]_vars

\* The item loadStoredTokens reads: the persistent one if there is one, else
\* the session one.
StoredEntry == IF localBlob # Null THEN localBlob ELSE sessionBlob

\* C21: after loadStoredTokens has run at start-up, if the stored item does
\* not decrypt under the manager's key or its timestamp is more than 24 hours
\* old, both tokens are null and initializeAuth has gone on to its end as with
\* no item (nothing was raised); and tokens are in memory only if the item
\* decrypts and is not older than 24 hours, and then they are the item's.
C21_LoadFailsClosed ==
    last.op = "initializeAuth" =>
        /\ (\/ ~decryptData(encryptionKey, StoredEntry).ok
            \/ now - decryptData(encryptionKey, StoredEntry).data[3] > 86400000)
              => (accessToken = Null /\ refreshToken = Null /\ last.res = "done")
        /\ (accessToken # Null \/ refreshToken # Null)
              => /\ decryptData(encryptionKey, StoredEntry).ok
                 /\ now - decryptData(encryptionKey, StoredEntry).data[3] <= 86400000
                 /\ accessToken = decryptData(encryptionKey, StoredEntry).data[1]
                 /\ refreshToken = decryptData(encryptionKey, StoredEntry).data[2]

\* Start-up is over with no token in memory although the persistent scope
\* holds the item of an earlier process, unchanged and less than a day old.
C21_Witness ==
    /\ last = Step("initializeAuth", "constructor", Null, "done", "none")
    /\ localBlob = EarlierBlob
    /\ now < storedTokenMaxAge
    /\ accessToken = Null
    /\ refreshToken = Null

\* C22: in every state in which a refresh timer is armed and a bundle is
\* held, the timer is due tokenExpiry - refreshThreshold = 55 minutes after
\* the issuance of the access token that is held.
C22_TimerDueFromIssuance ==
    \A x \in pendingTimers :
        (tokenRefreshTimer = <<x.id>> /\ accessToken # Null)
            => x.due = accessToken[4] + (3600000 - 300000)

\* C23: once a method of the manager has run in an Authenticated session
\* whose scheduled refresh time (the issuance of the access token held plus
\* 55 minutes) has passed, the refresh is under way: a refreshAccessToken (or
\* the logout that ends the session) is in progress, or the armed timer is
\* due and about to run it.
C23_OverdueSessionRefreshed ==
    (/\ isAuthenticated
     /\ now >= accessToken[4] + (3600000 - 300000)
     /\ last.op \in {"login", "logout", "refresh"})
        => \/ \E x \in BagToSet(tasks) : x.kind \in {"refresh", "logout"}
           \/ \E x \in pendingTimers : tokenRefreshTimer = <<x.id>> /\ x.due <= now

\* C24: while the session is Authenticated and the last user event is more
\* than 30 minutes old, the poll is due to call logout() (as soon as the
\* event loop is free and, in this model, a slot for the call is); the poll
\* that finds such a session does what a call of logout() does there, namely
\* it sends the logout request and leaves the session to the request's
\* answer; and when the logout so begun returns, the session is Anonymous and
\* both storage scopes are empty.
C24_InactivityEndsSession ==
    /\ []((/\ isAuthenticated
           /\ now - lastActivity > 1800000
           /\ ~StoreSettling
           /\ Room(tasks)) => ENABLED SessionTimeout)
    /\ [][(SessionTimeout /\ isAuthenticated)
            => /\ tasks' = Add(tasks, Task("logout", "sendLogoutRequest", "timeout",
                                           Null, 0, FALSE, Null, NoSnap))
               /\ last'.res = "pending"
               /\ UNCHANGED <<currentUser, accessToken, refreshToken, localBlob, sessionBlob>>]_vars
    /\ []((last.op = "logout" /\ last.origin = "timeout" /\ last.res = "done")
            => (Anonymous /\ localBlob = Null /\ sessionBlob = Null))

\* The logout that the poll began in an Authenticated session, idle for more
\* than 30 minutes, has returned.
C24_Witness ==
    /\ last = Step("logout", "timeout", Null, "done", "auth:logout")
    /\ now - lastActivity > sessionTimeout
    /\ sessions >= 1
    /\ Anonymous

\* C25: no step of a teardown (of the logout the inactivity poll calls, of
\* an explicit logout, of a refreshAccessToken that ends in logout) changes
\* the failure counter or the lock record of any e-mail, and a principal whose
\* lock is in force before such a step is locked after it.
C25_TeardownKeepsAttemptRecords ==
    [][last'.op \in {"logout", "refresh"} =>
        /\ attempts' = attempts
        /\ locked' = locked
        /\ \A p \in Principals :
              isAccountLocked(locked[p], now) => isAccountLocked(locked'[p], now')]_vars

\* The logout that the inactivity poll called has torn the session down
\* while a principal is locked with five failures on record.
C25_Witness ==
    /\ last = Step("logout", "timeout", Null, "done", "auth:logout")
    /\ Anonymous
    /\ sessions >= 1
    /\ \E p \in Principals :
          isAccountLocked(locked[p], now) /\ AttemptCount(attempts[p]) >= 5

C27_LoginSuccessEventOnce ==
    /\ [](last.op = "login" =>
            (last.evt = "auth:loginSuccess" <=> last.res = "success"))
    /\ [](last.op = "login" => last.evt \in {"auth:loginSuccess", "none"})
    /\ [][(last'.op = "login" /\ last'.evt = "auth:loginSuccess") =>
            \E x \in Suspended("login", "storeTokens") :
                /\ tasks' = Remove(tasks, x)
                /\ last'.p = x.email]_vars

\* A login for p has returned success with its event, after an earlier login
\* for p had returned a failure.
C27_Witness ==
    /\ last.op = "login"
    /\ last.res = "success"
    /\ last.evt = "auth:loginSuccess"
    /\ last.cleared[1] # Null

\* C28: for every plaintext handed to it (the empty string among them),
\* decryptData(encryptData(plaintext)) under the manager's key resolves, and
\* with the plaintext.
C28_RoundTrip ==
    last.op = "roundTrip" => (last.res = "resolved" /\ last.cleared = last.p)

\* C29: decryptData of a stored blob of which a byte (of the IV, of the
\* data or of the tag) was changed rejects and returns no plaintext; and when
\* the item loadStoredTokens reads at start-up is such a blob, no token is in
\* memory afterwards.
C29_TamperedBlobRejected ==
    /\ (last.op = "decryptData" /\ last.p \in TamperedBlobs)
          => (last.res = "rejected" /\ last.cleared = Null)
    /\ (last.op = "initializeAuth" /\ StoredEntry \in TamperedBlobs)
          => (accessToken = Null /\ refreshToken = Null /\ currentUser = Null)

\* After a start-up over the earlier blob with another bundle put in its
\* place, which left no token in memory, a caller's decryptData of that blob
\* has rejected.
C29_Witness ==
    /\ last.op = "decryptData"
    /\ last.p = [EarlierBlob EXCEPT ![2] = OtherBundle]
    /\ last.p = StoredEntry
    /\ last.res = "rejected"
    /\ accessToken = Null

\* C30: whatever the interleaving of the login calls for p, no failure
\* answer to a login for p is processed while p's lock is in force: the five
\* failures that set the lock are the last submissions for p that fail until
\* the lock is gone, so no more than 5 occur between two resets of p's
\* record.
C30_ParallelLoginsWithinBudget ==
    [][\A p \in Principals :
        FailureAnswered(p)' => ~isAccountLocked(locked[p], now)]_vars

\* The refresh requests waiting for the backend's answer.
RefreshRequests(bag) ==
    BagCardinality([x \in {y \in BagToSet(bag) : y.kind = "refresh" /\ y.pc = "sendTokenRefreshRequest"}
                        |-> bag[x]])

\* C31: once the backend has failed a refresh request, and until a login
\* succeeds, no step arms a refresh timer and no timer callback submits
\* another refresh request.
C31_NoRetryAfterRefreshFailure ==
    [][refreshFailed /\ refreshFailed'
         => /\ pendingTimers' \subseteq pendingTimers
            /\ ~(last'.origin = "timer" /\ RefreshRequests(tasks') > RefreshRequests(tasks))]_vars

\* C32: while there is no authenticated session no refresh timer is armed:
\* whatever ended the session cancelled the timer, and nothing arms one for
\* a session that is over.
C32_NoTimerWhileAnonymous == ~isAuthenticated => pendingTimers = {}

\* C33: every pending refresh timer is the one this.tokenRefreshTimer holds,
\* so at most one is pending: arming a timer has cancelled the one armed
\* before.
C33_OnePendingTimer == \A x \in pendingTimers : tokenRefreshTimer = <<x.id>>

\* A second refresh of a session has armed its timer at a time when the
\* timer of the first had neither run (no time has passed) nor been cancelled
\* by a logout (the session is the one the only login opened).
C33_Witness ==
    /\ last.op = "refresh"
    /\ last.res = "true"
    /\ renewals = 2
    /\ sessions = 1
    /\ currentUser # Null
    /\ now = 0
    /\ Cardinality(pendingTimers) = 1

\* C34: a step dispatches auth:logout exactly when it ends a session, that
\* is when the manager is authenticated before it and not after it.
C34_LogoutEventPerSessionEnd ==
    [][(last'.evt = "auth:logout") <=> (isAuthenticated /\ ~isAuthenticated')]_vars

\* The step is the inactivity poll calling logout(): a step of a logout the
\* poll called that is not the answer to its request.
PollActed ==
    /\ last'.op = "logout"
    /\ last'.origin = "timeout"
    /\ BagCardinality(tasks') >= BagCardinality(tasks)

C36_LoginCountsAsActivity ==
    [][(PollActed /\ isAuthenticated /\ accessToken[3] = 0)
         => now - accessToken[4] >= 1800000]_vars

PublicMethods == {"login", "loginWithGoogle", "loginWithNaver", "register", "refresh", "logout"}

\* C37: the promise of a public method (login, loginWithGoogle,
\* loginWithNaver, register, refreshAccessToken, logout) is never rejected:
\* each of its exits is a returned value.
C37_FailuresAreReturned ==
    last.op \in PublicMethods => promiseAfter(last.op, last.res) # "rejected"

\* C38: a request for advice that carries no usable key (no x-api-key header,
\* or demo_key) while the environment has no GEMINI_API_KEY is answered 401
\* and is sent no advice, whatever was served before it.
C38_UnkeyedRequestRefused ==
    (/\ last.op = "investment-advice"
     /\ last.origin \in {"", "demo_key"}
     /\ GEMINI_API_KEY = "")
        => (last.res = "401" /\ last.cleared = Null)

\* C39: once DOMContentLoaded has started the page, its handler eventually
\* returns, having reported completion or failure.
C39_StartupTerminates ==
    (marketIntegrator # Null) ~> (Handler \notin BagToSet(tasks))
====
